---- MODULE Spec2Model ----
(***************************************************************************)
(* pyxcp transport layer: BaseTransport (transport/base.py) bound to the   *)
(* CAN transport (transport/can.py).                                       *)
(*                                                                         *)
(* Two threads share one transport object: the caller (the master session) *)
(* running connect / request / block_request / block_receive / close, and  *)
(* the listener thread running Can.listen.  Each action below is one       *)
(* atomic step of one of them; a call that polls (get, block_receive) or   *)
(* waits (close's join) is split at the points where the other thread can  *)
(* run between two reads of shared state.                                  *)
(***************************************************************************)
EXTENDS Integers, Sequences, FiniteSets, TLC

VARIABLES
    useDefaultListener, \* Can.useDefaultListener (CAN_USE_DEFAULT_LISTENER)
    HEADER,             \* the transport class's HEADER
    use_tcp,            \* the attribute use_tcp: "True", "False" or "absent"
    max_dlc_required,   \* Can.max_dlc_required (MAX_DLC_REQUIRED)
    closeEvent,         \* BaseTransport.closeEvent (threading.Event)
    listener,           \* state of the BaseTransport.listener thread
    link,               \* state of the driver link (canInterface)
    resQueue,           \* BaseTransport.resQueue
    evQueue,            \* BaseTransport.evQueue
    servQueue,          \* BaseTransport.servQueue
    daqQueue,           \* BaseTransport.daqQueue
    counterSend,        \* BaseTransport.counterSend
    counterReceived,    \* BaseTransport.counterReceived
    pc,                 \* position of the caller thread
    cmd,                \* command of the call in progress
    lengthRequired,     \* block_receive's length_required
    blockResponse,      \* block_receive's accumulator block_response
    elapsed,            \* time() - start of the polling call in progress
    wire,               \* payload the call in progress handed to transmit()
    result,             \* outcome of the call that has just ended
    sendCount,          \* history: number of frames handed to transmit()
    reqCount,           \* history: number of frames sent by request()
    answered,           \* history: request() frames answered so far, or Unmatched
    resReq,             \* history: per resQueue entry, the request() it answers
    inTime,             \* history: a response arrived within request's timeout
    closeRun,           \* history: close() calls completed in a row
    connected,          \* history: a connect() has completed
    released,           \* history: close() has released the driver link
    call,               \* the function called directly last, with its outcome
    sentBefore,         \* history: frames sent before the run followed here
    lateReads           \* history: read() calls returning with the stop signal set

vars == <<useDefaultListener, HEADER, use_tcp, max_dlc_required, call, sentBefore,
          lateReads,
          closeEvent, listener, link, resQueue, evQueue,
          servQueue, daqQueue, counterSend, counterReceived, pc, cmd,
          lengthRequired, blockResponse, elapsed, wire, result, sendCount,
          reqCount, answered, resReq, inTime, closeRun, connected, released>>

\* The configuration of the transport, fixed at construction.
configVars == <<useDefaultListener, HEADER, use_tcp, max_dlc_required>>

(***************************************************************************)
(* Bounds of the model.                                                    *)
(***************************************************************************)
MaxQueue == 2      \* entries the slave lets pile up unread in the queues
MaxSends == 2      \* frames the caller sends in one run
MaxBlockLen == 2   \* largest length_required passed to block_receive

(***************************************************************************)
(* Program constants.                                                      *)
(***************************************************************************)
RequestTimeout == 2            \* get(self.resQueue, timeout=2.0)
BlockTimeout == 1              \* TIMEOUT = 1.0 in block_receive
CounterModulus == 65536        \* & 0xffff
MaxDlc == 8                    \* fill bytes up to MAX DLC (=8)
PidResponseMin == 254          \* pid >= 0xfe
PidEvent == 253                \* pid == 0xfd
PidService == 252              \* pid == 0xfc, and pid >= 0xFC
ERR_PID == 255                 \* PID of an ERROR response
SYNCH == 252                   \* command code of SYNCH
DOWNLOAD_MAX == 238            \* command code 0xEE

\* The clock of a polling call saturates just past the longer timeout.
MaxElapsed == RequestTimeout + 1

Commands == {SYNCH, DOWNLOAD_MAX}
Args == { <<>>, <<202, 254>> }

NoResult == [op |-> "none", status |-> "none", value |-> <<>>, code |-> 0,
             sent |-> 0, req |-> 0]

\* No module-level function has been called.
NoCall == [fn |-> "none", arg |-> <<>>, ret |-> <<>>]

Min(a, b) == IF a < b THEN a ELSE b

(***************************************************************************)
(* Frames the driver can deliver: a frame with an empty payload, response  *)
(* frames of uneven sizes (a bare PID, one and two payload bytes, positive *)
(* and ERROR), an event, a service request and a sample.                   *)
(***************************************************************************)
ResponseFrames == { <<ERR_PID>>, <<ERR_PID, 32>>,
                    <<PidResponseMin>>, <<PidResponseMin, 7, 8>> }
InboundFrames == ResponseFrames \cup { <<>>, <<PidEvent>>, <<PidService>>, <<1>> }

(***************************************************************************)
(* pyxcp.types: the classification of a response PDU and the error code.   *)
(***************************************************************************)
ResponseType(xcpPDU) == IF xcpPDU[1] = ERR_PID THEN "ERR" ELSE "OK"

\* XcpError.parse reads one byte; there is none in an empty input.
XcpErrorParse(bytes) ==
    IF Len(bytes) = 0 THEN [ok |-> FALSE, code |-> 0]
    ELSE [ok |-> TRUE, code |-> bytes[1]]

(***************************************************************************)
(* Configuration of the transport (defaults of the PARAMETER_MAPs).        *)
(***************************************************************************)
create_daq_timestamps == FALSE

(***************************************************************************)
(* The listener thread.                                                    *)
(***************************************************************************)
is_alive == listener \in {"check", "read"}

(***************************************************************************)
(* Outgoing frames.                                                        *)
(***************************************************************************)
RECURSIVE bit_length(_)
bit_length(n) == IF n = 0 THEN 0 ELSE 1 + bit_length(n \div 2)

\* EmptyHeader.pack: there is no header for XCP on CAN.
EmptyHeader_pack(length, counter) == <<>>

\* The header of a length-prefixed transport: the length and the counter as
\* unsigned 16-bit fields, low byte first.
LengthCounter_pack(length, counter) ==
    <<length % 256, (length \div 256) % 256, counter % 256, (counter \div 256) % 256>>

\* self.HEADER.pack(cmdlen + len(data), self.counterSend)
HEADER_pack(length, counter) ==
    IF HEADER = "EmptyHeader" THEN EmptyHeader_pack(length, counter)
    ELSE LengthCounter_pack(length, counter)

RECURSIVE Pow256(_)
Pow256(k) == IF k = 0 THEN 1 ELSE 256 * Pow256(k - 1)

\* cmd.to_bytes(cmdlen, 'big'): the cmdlen low-order bytes, most significant first.
to_bytes(c, cmdlen) == [i \in 1..cmdlen |-> (c \div Pow256(cmdlen - i)) % 256]

\* _prepare_request packing the number of argument bytes alone as the length.
_prepare_request_ArgsOnly(c, data) ==
    LET cmdlen == bit_length(c) \div 8
        header == HEADER_pack(Len(data), counterSend)
    IN  header \o to_bytes(c, cmdlen) \o data

\* The frame _prepare_request builds (the counter is advanced by its caller).
_prepare_request(c, data) ==
    LET cmdlen == bit_length(c) \div 8
        header == HEADER_pack(cmdlen + Len(data), counterSend)
    IN  header \o to_bytes(c, cmdlen) \o data

\* The counter advanced without the "& 0xffff".
NextCounter_NoWrap(c) == c + 1

NextCounter(c) == (c + 1) % CounterModulus

\* Can.send appending fill bytes whether or not the option is set.
send_AlwaysPads(frame) ==
    IF Len(frame) < MaxDlc
    THEN frame \o [i \in 1..(MaxDlc - Len(frame)) |-> 0]
    ELSE frame

\* Can.send: the payload handed to canInterface.transmit.
send(frame) ==
    IF max_dlc_required /\ Len(frame) < MaxDlc
    THEN frame \o [i \in 1..(MaxDlc - Len(frame)) |-> 0]
    ELSE frame

(***************************************************************************)
(* Inbound frames: BaseTransport.processResponse.                          *)
(***************************************************************************)
\* Classify without the length check on any transport.
Classify_NoLengthCheck(response, length, counter) ==
    LET timestamp == IF create_daq_timestamps THEN 1 ELSE 0
    IN  IF Len(response) = 0
        THEN [exc |-> "IndexError", queue |-> "none", element |-> <<>>]
        ELSE LET pid == response[1]
             IN  IF pid >= PidService
                 THEN IF pid >= PidResponseMin
                      THEN [exc |-> "none", queue |-> "res", element |-> response]
                      ELSE IF pid = PidEvent
                      THEN [exc |-> "none", queue |-> "ev", element |-> response]
                      ELSE [exc |-> "none", queue |-> "serv", element |-> response]
                 ELSE [exc |-> "none", queue |-> "daq",
                       element |-> <<response, counter, length, timestamp>>]

\* Classify with the Response test off by one ("pid >= 0xfd"): an event
\* lands in the Response queue.
Classify_EventAsResponse(response, length, counter) ==
    LET tcp == use_tcp = "True"
        timestamp == IF create_daq_timestamps THEN 1 ELSE 0
    IN  IF ~tcp /\ Len(response) # length
        THEN [exc |-> "FrameSizeError", queue |-> "none", element |-> <<>>]
        ELSE IF Len(response) = 0
        THEN [exc |-> "IndexError", queue |-> "none", element |-> <<>>]
        ELSE LET pid == response[1]
             IN  IF pid >= PidService
                 THEN IF pid >= PidEvent
                      THEN [exc |-> "none", queue |-> "res", element |-> response]
                      ELSE [exc |-> "none", queue |-> "serv", element |-> response]
                 ELSE [exc |-> "none", queue |-> "daq",
                       element |-> <<response, counter, length, timestamp>>]

\* What processResponse does with one frame: the failure it raises, or the
\* queue it appends to and the element appended.
Classify(response, length, counter) ==
    LET tcp == use_tcp = "True"   \* False without the attribute
        timestamp == IF create_daq_timestamps THEN 1 ELSE 0
    IN  IF ~tcp /\ Len(response) # length
        THEN [exc |-> "FrameSizeError", queue |-> "none", element |-> <<>>]
        ELSE IF Len(response) = 0
        THEN [exc |-> "IndexError", queue |-> "none", element |-> <<>>]
        ELSE LET pid == response[1]
             IN  IF pid >= PidService
                 THEN IF pid >= PidResponseMin
                      THEN [exc |-> "none", queue |-> "res", element |-> response]
                      ELSE IF pid = PidEvent
                      THEN [exc |-> "none", queue |-> "ev", element |-> response]
                      ELSE [exc |-> "none", queue |-> "serv", element |-> response]
                 ELSE [exc |-> "none", queue |-> "daq",
                       element |-> <<response, counter, length, timestamp>>]

\* The slave lets at most MaxQueue entries pile up unread in the four queues
\* together; a frame that raises is appended nowhere.
HasRoom(queue) ==
    \/ queue = "none"
    \/ Len(resQueue) + Len(evQueue) + Len(servQueue) + Len(daqQueue) < MaxQueue

\* The request() a response entry answers: the oldest one not yet answered,
\* or 0 when every request() has its answer (a response to a block frame, or
\* an unsolicited one).  Responses are attributed to requests only as long as
\* every response so far answered one: after the first that answers none,
\* "answered" is Unmatched and every later entry counts as answering none.
Unmatched == MaxSends + 1
Answers == IF answered < reqCount THEN answered + 1 ELSE 0

\* A response is appended while request() polls and its timeout has not elapsed.
ArrivesInTime(queue) ==
    queue = "res" /\ pc \in {"req_poll", "req_deadline"} /\ elapsed <= RequestTimeout

processResponse(response, length, counter) ==
    LET c == Classify(response, length, counter)
    IN  /\ counterReceived' = counter
        /\ resQueue' = IF c.queue = "res" THEN Append(resQueue, c.element) ELSE resQueue
        /\ resReq' = IF c.queue = "res" THEN Append(resReq, Answers) ELSE resReq
        /\ answered' = IF c.queue # "res" THEN answered
                       ELSE IF Answers # 0 THEN answered + 1 ELSE Unmatched
        /\ inTime' = (inTime \/ ArrivesInTime(c.queue))
        /\ evQueue' = IF c.queue = "ev" THEN Append(evQueue, c.element) ELSE evQueue
        /\ servQueue' = IF c.queue = "serv" THEN Append(servQueue, c.element) ELSE servQueue
        /\ daqQueue' = IF c.queue = "daq" THEN Append(daqQueue, c.element) ELSE daqQueue

\* Can.dataReceived handing on the declared length of a full frame (MAX DLC)
\* and a counter of its own.
Forwarded_FullFrame(payload) == [response |-> payload, length |-> MaxDlc, counter |-> 1]

\* What Can.dataReceived hands to processResponse: the payload, len(payload)
\* and counter=0.
Forwarded(payload) == [response |-> payload, length |-> Len(payload), counter |-> 0]

\* Can.dataReceived
dataReceived(payload) ==
    LET a == Forwarded(payload)
    IN  processResponse(a.response, a.length, a.counter)

\* The failure Can.dataReceived lets through for a payload, or "none".
Raised(payload) ==
    LET a == Forwarded(payload)
    IN  Classify(a.response, a.length, a.counter).exc

\* The queue Can.dataReceived appends the payload to, or "none".
Filed(payload) ==
    LET a == Forwarded(payload)
    IN  Classify(a.response, a.length, a.counter).queue

callerVars == <<pc, cmd, lengthRequired, blockResponse, elapsed, wire, result,
                sendCount, reqCount, counterSend, closeRun, connected, released>>

\* The count of read() calls that returned with the stop signal set, after
\* one more read() has returned; it stops counting at 2.
LateRead == IF closeEvent THEN Min(lateReads + 1, 2) ELSE lateReads

(***************************************************************************)
(* Can.listen: one iteration is the test of the stop signal, then one      *)
(* read() and the processing of the frame it returned.                     *)
(***************************************************************************)
\* The listen loop going on to read() whatever the stop signal says.
ListenCheck_IgnoresStop ==
    /\ listener = "check"
    /\ listener' = "read"
    /\ UNCHANGED <<configVars, sentBefore, lateReads, call, closeEvent, link, resQueue,
                   evQueue, servQueue, daqQueue, counterReceived, answered, resReq,
                   inTime, callerVars>>

\* "if self.closeEvent.isSet(): return"
ListenCheck ==
    /\ listener = "check"
    /\ listener' = IF closeEvent THEN "done" ELSE "read"
    /\ UNCHANGED <<configVars, sentBefore, lateReads, call, closeEvent, link, resQueue, evQueue,
                   servQueue, daqQueue, counterReceived, answered, resReq,
                   inTime, callerVars>>

\* read() returned no frame.
ListenReadNone ==
    /\ listener = "read"
    /\ listener' = "check"
    /\ lateReads' = LateRead
    /\ UNCHANGED <<configVars, sentBefore, call, closeEvent, link, resQueue, evQueue,
                   servQueue, daqQueue, counterReceived, answered, resReq,
                   inTime, callerVars>>

\* read() returned a frame: an open link delivers any frame.
ListenReadFrame(data) ==
    /\ listener = "read"
    /\ link = "open"
    /\ HasRoom(Filed(data))
    /\ dataReceived(data)
    /\ listener' = IF Raised(data) = "none" THEN "check" ELSE "crashed"
    /\ lateReads' = LateRead
    /\ UNCHANGED <<configVars, sentBefore, call, closeEvent, link, callerVars>>

(***************************************************************************)
(* The caller thread.                                                      *)
(***************************************************************************)
inboundVars == <<evQueue, servQueue, daqQueue, counterReceived, answered>>
historyVars == <<reqCount, inTime>>

Outcome(op, status, value, code, sent, req) ==
    [op |-> op, status |-> status, value |-> value, code |-> code,
     sent |-> sent, req |-> req]

\* Inspect returning the entry whole, its PID byte included.
Inspect_KeepsPid(op, c, xcpPDU, sent, req) ==
    IF ResponseType(xcpPDU) = "ERR" /\ c # SYNCH
    THEN LET err == XcpErrorParse(Tail(xcpPDU))
         IN  IF err.ok
             THEN Outcome(op, "XcpResponseError", <<>>, err.code, sent, req)
             ELSE Outcome(op, "ParseError", <<>>, 0, sent, req)
    ELSE Outcome(op, "ok", xcpPDU, 0, sent, req)

\* Inspect raising on an ERROR entry whatever the command.
Inspect_NoSynchExemption(op, c, xcpPDU, sent, req) ==
    IF ResponseType(xcpPDU) = "ERR"
    THEN LET err == XcpErrorParse(Tail(xcpPDU))
         IN  IF err.ok
             THEN Outcome(op, "XcpResponseError", <<>>, err.code, sent, req)
             ELSE Outcome(op, "ParseError", <<>>, 0, sent, req)
    ELSE Outcome(op, "ok", Tail(xcpPDU), 0, sent, req)

\* What request and block_request make of a popped Response entry.
Inspect(op, c, xcpPDU, sent, req) ==
    IF ResponseType(xcpPDU) = "ERR" /\ c # SYNCH
    THEN LET err == XcpErrorParse(Tail(xcpPDU))
         IN  IF err.ok
             THEN Outcome(op, "XcpResponseError", <<>>, err.code, sent, req)
             ELSE Outcome(op, "ParseError", <<>>, 0, sent, req)
    ELSE Outcome(op, "ok", Tail(xcpPDU), 0, sent, req)

\* request() emptying the Response queue before it sends.
request_Drains(c, data) ==
    /\ pc = "idle"
    /\ sendCount < MaxSends
    /\ cmd' = c
    /\ resQueue' = <<>>
    /\ resReq' = <<>>
    /\ counterSend' = NextCounter(counterSend)
    /\ wire' = send(_prepare_request(c, data))
    /\ sendCount' = sendCount + 1
    /\ reqCount' = reqCount + 1
    /\ inTime' = FALSE
    /\ elapsed' = 0
    /\ closeRun' = 0
    /\ pc' = "req_poll"
    /\ UNCHANGED <<configVars, sentBefore, lateReads, call, closeEvent, listener, link,
                   inboundVars, lengthRequired, blockResponse, result,
                   connected, released>>

\* request(): _prepare_request, then send; get() starts its clock.
request(c, data) ==
    /\ pc = "idle"
    /\ sendCount < MaxSends
    /\ cmd' = c
    /\ counterSend' = NextCounter(counterSend)
    /\ wire' = send(_prepare_request(c, data))
    /\ sendCount' = sendCount + 1
    /\ reqCount' = reqCount + 1
    /\ inTime' = FALSE
    /\ elapsed' = 0
    /\ closeRun' = 0
    /\ pc' = "req_poll"
    /\ UNCHANGED <<configVars, sentBefore, lateReads, call, closeEvent, listener, link, resQueue,
                   resReq, inboundVars, lengthRequired, blockResponse, result,
                   connected, released>>

\* get() taking the entry at the right end of the deque (q.pop()).
GetItem_PopsLast ==
    /\ pc = "req_poll"
    /\ resQueue # <<>>
    /\ resQueue' = SubSeq(resQueue, 1, Len(resQueue) - 1)
    /\ resReq' = SubSeq(resReq, 1, Len(resReq) - 1)
    /\ result' = Inspect("request", cmd, resQueue[Len(resQueue)], reqCount,
                         resReq[Len(resReq)])
    /\ pc' = "returned"
    /\ UNCHANGED <<configVars, sentBefore, lateReads, call, closeEvent, listener, link, inboundVars, historyVars,
                   cmd, lengthRequired, blockResponse, elapsed, wire, sendCount,
                   counterSend, closeRun, connected, released>>

\* get(): "while not q" finds an entry: popleft, then request inspects it.
GetItem ==
    /\ pc = "req_poll"
    /\ resQueue # <<>>
    /\ resQueue' = Tail(resQueue)
    /\ resReq' = Tail(resReq)
    /\ result' = Inspect("request", cmd, Head(resQueue), reqCount, Head(resReq))
    /\ pc' = "returned"
    /\ UNCHANGED <<configVars, sentBefore, lateReads, call, closeEvent, listener, link, inboundVars, historyVars,
                   cmd, lengthRequired, blockResponse, elapsed, wire, sendCount,
                   counterSend, closeRun, connected, released>>

\* get(): "while not q" finds the queue empty and goes on to read the clock.
GetEmpty ==
    /\ pc = "req_poll"
    /\ resQueue = <<>>
    /\ pc' = "req_deadline"
    /\ UNCHANGED <<configVars, sentBefore, lateReads, call, closeEvent, listener, link, resQueue,
                   resReq, inboundVars, historyVars, cmd, lengthRequired, blockResponse,
                   elapsed, wire, result, sendCount, counterSend, closeRun,
                   connected, released>>

\* get() answering an elapsed timeout by sending the frame once more and
\* starting its clock again, while frames are left to send.
GetDeadline_Resends ==
    /\ pc = "req_deadline"
    /\ IF elapsed > RequestTimeout /\ sendCount < MaxSends
       THEN /\ sendCount' = sendCount + 1
            /\ elapsed' = 0
            /\ pc' = "req_poll"
            /\ UNCHANGED result
       ELSE /\ IF elapsed > RequestTimeout
               THEN /\ result' = Outcome("request", "XcpTimeoutError", <<>>, 0, reqCount, 0)
                    /\ pc' = "returned"
               ELSE /\ result' = result
                    /\ pc' = "req_poll"
            /\ UNCHANGED <<sendCount, elapsed>>
    /\ UNCHANGED <<configVars, sentBefore, lateReads, call, closeEvent, listener, link, resQueue,
                   resReq, inboundVars, historyVars, cmd, lengthRequired, blockResponse,
                   wire, counterSend, closeRun, connected, released>>

\* get(): "if time() - start > timeout: raise Empty", else sleep and poll again.
GetDeadline ==
    /\ pc = "req_deadline"
    /\ IF elapsed > RequestTimeout
       THEN /\ result' = Outcome("request", "XcpTimeoutError", <<>>, 0, reqCount, 0)
            /\ pc' = "returned"
       ELSE /\ result' = result
            /\ pc' = "req_poll"
    /\ UNCHANGED <<configVars, sentBefore, lateReads, call, closeEvent, listener, link, resQueue,
                   resReq, inboundVars, historyVars, cmd, lengthRequired, blockResponse,
                   elapsed, wire, sendCount, counterSend, closeRun, connected,
                   released>>

\* Time passes while a call polls.
Tick ==
    /\ pc \in {"req_poll", "req_deadline", "br_loop", "br_deadline"}
    /\ elapsed < MaxElapsed
    /\ elapsed' = elapsed + 1
    /\ UNCHANGED <<configVars, sentBefore, lateReads, call, closeEvent, listener, link, resQueue,
                   resReq, inboundVars, historyVars, pc, cmd, lengthRequired, blockResponse,
                   wire, result, sendCount, counterSend, closeRun, connected,
                   released>>

\* block_request draining the whole Response queue instead of one entry.
block_request_Drains(c, data) ==
    /\ pc = "idle"
    /\ cmd' = c
    /\ closeRun' = 0
    /\ pc' = "returned"
    /\ LET queued == resQueue # <<>>
           seen == IF queued
                   THEN Inspect("block_request", c, Head(resQueue), 0, Head(resReq))
                   ELSE Outcome("block_request", "ok", <<>>, 0, 0, 0)
       IN  /\ resQueue' = <<>>
           /\ resReq' = <<>>
           /\ IF seen.status = "ok"
              THEN /\ sendCount < MaxSends
                   /\ counterSend' = NextCounter(counterSend)
                   /\ wire' = send(_prepare_request(c, data))
                   /\ sendCount' = sendCount + 1
                   /\ result' = Outcome("block_request", "ok", <<>>, 0, 0, seen.req)
              ELSE /\ result' = seen
                   /\ UNCHANGED <<counterSend, wire, sendCount>>
    /\ UNCHANGED <<configVars, sentBefore, lateReads, call, closeEvent, listener, link, inboundVars,
                   historyVars, lengthRequired, blockResponse, elapsed,
                   connected, released>>

\* block_request(): inspect a queued response, if any, then send.
block_request(c, data) ==
    /\ pc = "idle"
    /\ cmd' = c
    /\ closeRun' = 0
    /\ pc' = "returned"
    /\ LET queued == resQueue # <<>>
           seen == IF queued
                   THEN Inspect("block_request", c, Head(resQueue), 0, Head(resReq))
                   ELSE Outcome("block_request", "ok", <<>>, 0, 0, 0)
       IN  /\ resQueue' = IF queued THEN Tail(resQueue) ELSE resQueue
           /\ resReq' = IF queued THEN Tail(resReq) ELSE resReq
           /\ IF seen.status = "ok"
              THEN /\ sendCount < MaxSends
                   /\ counterSend' = NextCounter(counterSend)
                   /\ wire' = send(_prepare_request(c, data))
                   /\ sendCount' = sendCount + 1
                   /\ result' = Outcome("block_request", "ok", <<>>, 0, 0, seen.req)
              ELSE /\ result' = seen
                   /\ UNCHANGED <<counterSend, wire, sendCount>>
    /\ UNCHANGED <<configVars, sentBefore, lateReads, call, closeEvent, listener, link, inboundVars, historyVars,
                   lengthRequired, blockResponse, elapsed, connected, released>>

\* block_receive(): TIMEOUT, block_response = b'', start = time().
block_receive(length_required) ==
    /\ pc = "idle"
    /\ lengthRequired' = length_required
    /\ blockResponse' = <<>>
    /\ elapsed' = 0
    /\ closeRun' = 0
    /\ pc' = "br_loop"
    /\ UNCHANGED <<configVars, sentBefore, lateReads, call, closeEvent, listener, link, resQueue,
                   resReq, inboundVars, historyVars, cmd, wire, result, sendCount,
                   counterSend, connected, released>>

\* One test of "while len(block_response) < length_required" and, inside the
\* loop, of "if len(self.resQueue)".
BlockLoop ==
    /\ pc = "br_loop"
    /\ IF Len(blockResponse) < lengthRequired
       THEN IF Len(resQueue) # 0
            THEN /\ resQueue' = Tail(resQueue)
                 /\ resReq' = Tail(resReq)
                 /\ blockResponse' = blockResponse \o Tail(Head(resQueue))
                 /\ UNCHANGED <<pc, result>>
            ELSE /\ pc' = "br_deadline"
                 /\ UNCHANGED <<resQueue, resReq, blockResponse, result>>
       ELSE /\ result' = Outcome("block_receive", "ok", blockResponse, 0, 0, 0)
            /\ pc' = "returned"
            /\ UNCHANGED <<resQueue, resReq, blockResponse>>
    /\ UNCHANGED <<configVars, sentBefore, lateReads, call, closeEvent, listener, link, inboundVars, historyVars,
                   cmd, lengthRequired, elapsed, wire, sendCount, counterSend,
                   closeRun, connected, released>>

\* "if time() - start > TIMEOUT: raise", else sleep and loop.
BlockDeadline ==
    /\ pc = "br_deadline"
    /\ IF elapsed > BlockTimeout
       THEN /\ result' = Outcome("block_receive", "XcpTimeoutError", <<>>, 0, 0, 0)
            /\ pc' = "returned"
       ELSE /\ result' = result
            /\ pc' = "br_loop"
    /\ UNCHANGED <<configVars, sentBefore, lateReads, call, closeEvent, listener, link, resQueue,
                   resReq, inboundVars, historyVars, cmd, lengthRequired, blockResponse,
                   elapsed, wire, sendCount, counterSend, closeRun, connected,
                   released>>

\* startListener(): Thread.start() raises RuntimeError on a thread that was
\* started before.
startListener == IF listener = "new" THEN "check" ELSE listener

\* Can.connect(): start the listener if configured, ...
connect ==
    /\ pc = "idle"
    /\ closeRun' = 0
    /\ IF useDefaultListener /\ listener # "new"
       THEN /\ result' = Outcome("connect", "RuntimeError", <<>>, 0, 0, 0)
            /\ pc' = "returned"
            /\ UNCHANGED listener
       ELSE /\ listener' = IF useDefaultListener THEN startListener ELSE listener
            /\ pc' = "conn_link"
            /\ UNCHANGED result
    /\ UNCHANGED <<configVars, sentBefore, lateReads, call, closeEvent, link, resQueue, resReq,
                   inboundVars, historyVars, cmd, lengthRequired, blockResponse, elapsed,
                   wire, sendCount, counterSend, connected, released>>

\* ... then canInterface.connect().
ConnectLink ==
    /\ pc = "conn_link"
    /\ link' = "open"
    /\ connected' = TRUE
    /\ result' = Outcome("connect", "ok", <<>>, 0, 0, 0)
    /\ pc' = "returned"
    /\ UNCHANGED <<configVars, sentBefore, lateReads, call, closeEvent, listener, resQueue, resReq,
                   inboundVars, historyVars, cmd, lengthRequired, blockResponse, elapsed,
                   wire, sendCount, counterSend, closeRun, released>>

\* finishListener leaving the stop signal as it is.
finishListener_NotSet == closeEvent

\* finishListener(): self.closeEvent.set()
finishListener == TRUE

\* close() going on to closeConnection() without joining the listener.
AfterFinish_NoJoin == "close_conn"

\* Where close() goes after finishListener(): "if self.listener.is_alive():
\* self.listener.join()", else straight to closeConnection().
AfterFinish == IF is_alive THEN "close_join" ELSE "close_conn"

\* close(): set the stop signal and test is_alive().
close ==
    /\ pc = "idle"
    /\ closeEvent' = finishListener
    /\ pc' = AfterFinish
    /\ UNCHANGED <<configVars, sentBefore, lateReads, call, listener, link, resQueue, resReq,
                   inboundVars, historyVars, cmd, lengthRequired, blockResponse, elapsed,
                   wire, result, sendCount, counterSend, closeRun, connected,
                   released>>

\* self.listener.join() returns once the listener thread has ended.
Join ==
    /\ pc = "close_join"
    /\ ~is_alive
    /\ pc' = "close_conn"
    /\ UNCHANGED <<configVars, sentBefore, lateReads, call, closeEvent, listener, link, resQueue,
                   resReq, inboundVars, historyVars, cmd, lengthRequired, blockResponse,
                   elapsed, wire, result, sendCount, counterSend, closeRun,
                   connected, released>>

\* Can.closeConnection(): canInterface.close(); close() returns.
closeConnection ==
    /\ pc = "close_conn"
    /\ link' = "closed"
    /\ released' = TRUE
    /\ closeRun' = Min(closeRun + 1, 2)
    /\ result' = Outcome("close", "ok", <<>>, 0, 0, 0)
    /\ pc' = "returned"
    /\ UNCHANGED <<configVars, sentBefore, lateReads, call, closeEvent, listener, resQueue, resReq,
                   inboundVars, historyVars, cmd, lengthRequired, blockResponse, elapsed,
                   wire, sendCount, counterSend, connected>>

\* The call hands its outcome to the caller, whose frame is left.
Return ==
    /\ pc = "returned"
    /\ pc' = "idle"
    /\ result' = NoResult
    /\ cmd' = 0
    /\ lengthRequired' = 0
    /\ blockResponse' = <<>>
    /\ elapsed' = 0
    /\ wire' = <<>>
    /\ inTime' = FALSE
    /\ UNCHANGED <<configVars, sentBefore, lateReads, call, closeEvent, listener, link, resQueue,
                   resReq, inboundVars, reqCount, sendCount, counterSend, closeRun,
                   connected, released>>

(***************************************************************************)
(* The transport after construction: the listener thread exists but is not *)
(* started, the stop signal is clear, the queues are empty, the counters   *)
(* are zero.  The configuration decides whether connect starts the         *)
(* listener.                                                               *)
(***************************************************************************)
Init ==
    /\ useDefaultListener \in BOOLEAN
    /\ HEADER = "EmptyHeader"
    /\ use_tcp = "absent"
    /\ max_dlc_required = FALSE
    /\ call = NoCall
    /\ sentBefore = 0
    /\ lateReads = 0
    /\ closeEvent = FALSE
    /\ listener = "new"
    /\ link = "init"
    /\ resQueue = <<>>
    /\ evQueue = <<>>
    /\ servQueue = <<>>
    /\ daqQueue = <<>>
    /\ counterSend = 0
    /\ counterReceived = 0
    /\ pc = "idle"
    /\ cmd = 0
    /\ lengthRequired = 0
    /\ blockResponse = <<>>
    /\ elapsed = 0
    /\ wire = <<>>
    /\ result = NoResult
    /\ sendCount = 0
    /\ reqCount = 0
    /\ inTime = FALSE
    /\ answered = 0
    /\ resReq = <<>>
    /\ closeRun = 0
    /\ connected = FALSE
    /\ released = FALSE

Listener ==
    \/ ListenCheck
    \/ ListenReadNone
    \/ \E data \in InboundFrames : ListenReadFrame(data)

Caller ==
    \/ connect
    \/ ConnectLink
    \/ \E c \in Commands, data \in Args : request(c, data)
    \/ GetItem
    \/ GetEmpty
    \/ GetDeadline
    \/ \E c \in Commands, data \in Args : block_request(c, data)
    \/ \E n \in 0..MaxBlockLen : block_receive(n)
    \/ BlockLoop
    \/ BlockDeadline
    \/ close
    \/ Join
    \/ closeConnection
    \/ Return

Next ==
    \/ Listener
    \/ Caller
    \/ Tick

Spec == Init /\ [][Next]_vars

\* The caller thread is scheduled and time passes.
FairSpec == Spec /\ WF_vars(Caller) /\ WF_vars(Tick)

\* The listener thread is scheduled and the driver's read() returns.
ListenSpec == Spec /\ WF_vars(Listener)

(***************************************************************************)
(* The caller alone on a transport of any kind: the headerless CAN         *)
(* transport with or without fill bytes, or a length-prefixed transport    *)
(* with or without the attribute use_tcp.  Inbound frames are handed to    *)
(* processResponse one at a time, as the transport's listener does: by     *)
(* Can.dataReceived on CAN, with the length and counter of the frame's     *)
(* header on a length-prefixed transport.                                  *)
(***************************************************************************)
Transports ==
    [HEADER : {"EmptyHeader"}, use_tcp : {"absent"}, max_dlc_required : BOOLEAN]
    \cup [HEADER : {"LengthCounter"}, use_tcp : {"absent", "False", "True"},
          max_dlc_required : {FALSE}]

\* Arguments that make frames of 1, 5 and 8 bytes.
FrameArgs == { <<>>, <<202, 254, 186, 190>>, <<1, 2, 3, 4, 5, 6, 7>> }

\* What the slave answers to a frame.
SlaveResponses == { <<ERR_PID, 32>>, <<PidResponseMin>> }

\* Frames, declared lengths and counters of inbound frames.
DeliveredFrames == { <<>>, <<ERR_PID, 32>>, <<PidEvent>>, <<PidService>>, <<1>> }
DeclaredLengths == 0..2
ReceivedCounters == {0, 1}

\* Frames the transport has sent before: none, or enough for the 16-bit send
\* counter to stand at its last value.
SentBefore == {0, CounterModulus - 1}

\* request() whose send() raises: the failure of the driver's transmit leaves
\* request() after _prepare_request has advanced the counter.
requestSendRaises(c, data) ==
    /\ pc = "idle"
    /\ sendCount < MaxSends
    /\ cmd' = c
    /\ counterSend' = NextCounter(counterSend)
    /\ sendCount' = sendCount + 1
    /\ result' = Outcome("request", "TransmitError", <<>>, 0, reqCount, 0)
    /\ closeRun' = 0
    /\ pc' = "returned"
    /\ UNCHANGED <<configVars, sentBefore, lateReads, call, closeEvent, listener, link, resQueue,
                   resReq, inboundVars, historyVars, lengthRequired, blockResponse,
                   elapsed, wire, connected, released>>

\* One frame handed to processResponse.
Deliver(response, length, counter) ==
    /\ HEADER = "EmptyHeader" => (length = Len(response) /\ counter = 0)
    /\ HasRoom(Classify(response, length, counter).queue)
    /\ processResponse(response, length, counter)
    /\ call' = [fn |-> "processResponse", arg |-> <<>>,
                ret |-> <<Classify(response, length, counter).exc>>]
    /\ UNCHANGED <<configVars, sentBefore, lateReads, closeEvent, listener, link,
                   callerVars>>

TransportInit ==
    /\ \E t \in Transports :
          /\ HEADER = t.HEADER
          /\ use_tcp = t.use_tcp
          /\ max_dlc_required = t.max_dlc_required
    /\ useDefaultListener = TRUE
    /\ sentBefore \in SentBefore
    /\ counterSend = sentBefore % CounterModulus
    /\ lateReads = 0
    /\ call = NoCall
    /\ closeEvent = FALSE
    /\ listener = "new"
    /\ link = "init"
    /\ resQueue = <<>>
    /\ evQueue = <<>>
    /\ servQueue = <<>>
    /\ daqQueue = <<>>
    /\ counterReceived = 0
    /\ pc = "idle"
    /\ cmd = 0
    /\ lengthRequired = 0
    /\ blockResponse = <<>>
    /\ elapsed = 0
    /\ wire = <<>>
    /\ result = NoResult
    /\ sendCount = 0
    /\ reqCount = 0
    /\ inTime = FALSE
    /\ answered = 0
    /\ resReq = <<>>
    /\ closeRun = 0
    /\ connected = FALSE
    /\ released = FALSE

\* The outbound side: the caller sends, the slave answers or stays silent.
SendNext ==
    \/ \E c \in Commands, data \in FrameArgs : request(c, data)
    \/ \E c \in Commands, data \in FrameArgs : requestSendRaises(c, data)
    \/ GetItem
    \/ GetEmpty
    \/ GetDeadline
    \/ Tick
    \/ \E c \in Commands, data \in FrameArgs : block_request(c, data)
    \/ Return
    \/ \E response \in SlaveResponses : Deliver(response, Len(response), 0)

SendSpec == TransportInit /\ [][SendNext]_vars

\* The inbound side: frames of any kind, with any declared length.
ReceiveNext ==
    \E response \in DeliveredFrames, length \in DeclaredLengths,
       counter \in ReceivedCounters : Deliver(response, length, counter)

ReceiveSpec == TransportInit /\ [][ReceiveNext]_vars

(***************************************************************************)
(* CAN addressing and framing: the module-level functions of can.py.       *)
(*                                                                         *)
(* A raw identifier needs more than 31 bits, so a non-negative Python int  *)
(* n is held as its two halves, n = hi * 65536 + lo with lo < 65536; the   *)
(* bitwise operators work on each half, comparisons on the pair.           *)
(***************************************************************************)
Wide(hi, lo) == [hi |-> hi, lo |-> lo]

RECURSIVE BitAnd(_, _)
BitAnd(a, b) ==
    IF a = 0 \/ b = 0 THEN 0
    ELSE (a % 2) * (b % 2) + 2 * BitAnd(a \div 2, b \div 2)

RECURSIVE BitOr(_, _)
BitOr(a, b) ==
    IF a = 0 THEN b
    ELSE IF b = 0 THEN a
    ELSE (IF a % 2 = 1 \/ b % 2 = 1 THEN 1 ELSE 0) + 2 * BitOr(a \div 2, b \div 2)

RECURSIVE BitXor(_, _)
BitXor(a, b) ==
    IF a = 0 THEN b
    ELSE IF b = 0 THEN a
    ELSE (IF a % 2 = b % 2 THEN 0 ELSE 1) + 2 * BitXor(a \div 2, b \div 2)

\* operator.and_, operator.or_ and ^ on Python ints.
and_(a, b) == Wide(BitAnd(a.hi, b.hi), BitAnd(a.lo, b.lo))
or_(a, b) == Wide(BitOr(a.hi, b.hi), BitOr(a.lo, b.lo))
xor(a, b) == Wide(BitXor(a.hi, b.hi), BitXor(a.lo, b.lo))

\* a > b on Python ints.
Greater(a, b) == a.hi > b.hi \/ (a.hi = b.hi /\ a.lo > b.lo)

CAN_EXTENDED_ID == Wide(32768, 0)            \* 0x80000000
MAX_11_BIT_IDENTIFIER == Wide(0, 2047)       \* (1 << 11) - 1
MAX_29_BIT_IDENTIFIER == Wide(8191, 65535)   \* (1 << 29) - 1

isExtendedIdentifier(identifier) ==
    and_(identifier, CAN_EXTENDED_ID) = CAN_EXTENDED_ID

\* stripIdentifier returning the identifier with its marker bit.
stripIdentifier_KeepsMarker(identifier) == identifier

\* identifier & (~CAN_EXTENDED_ID): the bits of identifier that are not bits
\* of CAN_EXTENDED_ID.
stripIdentifier(identifier) ==
    xor(identifier, and_(identifier, CAN_EXTENDED_ID))

\* Identifier.__init__: the object constructed, or the error raised.
Identifier(raw_id) ==
    LET id == stripIdentifier(raw_id)
        is_extended == isExtendedIdentifier(raw_id)
        made == [exc |-> "none", raw_id |-> raw_id, id |-> id,
                 is_extended |-> is_extended]
        failed == [exc |-> "IdentifierOutOfRangeError", raw_id |-> raw_id,
                   id |-> id, is_extended |-> is_extended]
    IN  IF is_extended
        THEN IF Greater(id, MAX_29_BIT_IDENTIFIER) THEN failed ELSE made
        ELSE IF Greater(id, MAX_11_BIT_IDENTIFIER) THEN failed ELSE made

\* functools.reduce(function, sequence) of a non-empty sequence.
RECURSIVE reduce_and(_)
reduce_and(xs) ==
    IF Len(xs) = 1 THEN xs[1]
    ELSE and_(reduce_and(SubSeq(xs, 1, Len(xs) - 1)), xs[Len(xs)])

RECURSIVE reduce_or(_)
reduce_or(xs) ==
    IF Len(xs) = 1 THEN xs[1]
    ELSE or_(reduce_or(SubSeq(xs, 1, Len(xs) - 1)), xs[Len(xs)])

\* calculateFilter without the final "cmask ^= ...".
calculateFilter_NoRangeXor(ids) ==
    LET raw_ids == [i \in 1..Len(ids) |-> stripIdentifier(ids[i])]
        cfilter == reduce_and(raw_ids)
        cmask == xor(reduce_or(raw_ids), cfilter)
    IN  [cfilter |-> cfilter, cmask |-> cmask]

\* calculateFilter taking 0x7ff as the range whatever the identifiers.
calculateFilter_AlwaysStandard(ids) ==
    LET raw_ids == [i \in 1..Len(ids) |-> stripIdentifier(ids[i])]
        cfilter == reduce_and(raw_ids)
        cmask == xor(reduce_or(raw_ids), cfilter)
    IN  [cfilter |-> cfilter, cmask |-> xor(cmask, Wide(0, 2047))]

calculateFilter(ids) ==
    LET any_extended_ids == \E i \in 1..Len(ids) : isExtendedIdentifier(ids[i])
        raw_ids == [i \in 1..Len(ids) |-> stripIdentifier(ids[i])]
        cfilter == reduce_and(raw_ids)
        cmask == xor(reduce_or(raw_ids), cfilter)
    IN  [cfilter |-> cfilter,
         cmask |-> xor(cmask, IF any_extended_ids THEN Wide(8191, 65535)
                                                  ELSE Wide(0, 2047))]

FD_DLCS == <<12, 16, 20, 24, 32, 48, 64>>

\* The loop comparing with "length < dlc".
RECURSIVE FirstDlc_Strict(_, _)
FirstDlc_Strict(length, i) ==
    IF i > Len(FD_DLCS) THEN [kind |-> "None", value |-> 0]
    ELSE IF length < FD_DLCS[i] THEN [kind |-> "value", value |-> FD_DLCS[i]]
    ELSE FirstDlc_Strict(length, i + 1)

\* "for dlc in FD_DLCS: if length <= dlc: return dlc", from the i-th element
\* on; a loop that ends without returning makes the function return None.
RECURSIVE FirstDlc(_, _)
FirstDlc(length, i) ==
    IF i > Len(FD_DLCS) THEN [kind |-> "None", value |-> 0]
    ELSE IF length <= FD_DLCS[i] THEN [kind |-> "value", value |-> FD_DLCS[i]]
    ELSE FirstDlc(length, i + 1)

setDLC(length) ==
    IF length < 0 THEN [kind |-> "ValueError", value |-> 0]
    ELSE IF length <= 8 THEN [kind |-> "value", value |-> length]
    ELSE IF length <= 64 THEN FirstDlc(length, 1)
    ELSE [kind |-> "ValueError", value |-> 0]

(***************************************************************************)
(* The functions called one at a time on arguments of every kind.          *)
(***************************************************************************)
\* Raw identifiers: standard and extended ones at and around the two limits,
\* and values with bits above bit 31.
RawIds ==
    { Wide(0, 0), Wide(0, 1), Wide(0, 257), Wide(0, 2047), Wide(0, 2048),
      Wide(1, 0), Wide(8191, 65535), Wide(32767, 65535),
      Wide(32768, 0), Wide(32768, 2048), Wide(40959, 65535), Wide(40960, 0),
      Wide(65535, 65535), Wide(65536, 5), Wide(98304, 5) }

\* Identifiers that Identifier() accepts, for calculateFilter.
FilterIds ==
    { Wide(0, 0), Wide(0, 257), Wide(0, 258), Wide(0, 259), Wide(0, 2047),
      Wide(32768, 257), Wide(32769, 0), Wide(40959, 65535) }

MaxIds == 2        \* identifiers in one call of calculateFilter
MaxLength == 66    \* largest length passed to setDLC

IdLists == UNION { [1..n -> FilterIds] : n \in 1..MaxIds }
Lengths == (0 - 2)..MaxLength

transportVars == <<configVars, sentBefore, lateReads, closeEvent, listener, link, resQueue,
                   resReq, inboundVars, inTime, callerVars>>

CallIdentifier(raw_id) ==
    /\ call' = [fn |-> "Identifier", arg |-> <<raw_id>>, ret |-> Identifier(raw_id)]
    /\ UNCHANGED transportVars

CallCalculateFilter(ids) ==
    /\ call' = [fn |-> "calculateFilter", arg |-> ids, ret |-> calculateFilter(ids)]
    /\ UNCHANGED transportVars

CallSetDLC(length) ==
    /\ call' = [fn |-> "setDLC", arg |-> <<length>>, ret |-> setDLC(length)]
    /\ UNCHANGED transportVars

FnNext ==
    \/ \E raw_id \in RawIds : CallIdentifier(raw_id)
    \/ \E ids \in IdLists : CallCalculateFilter(ids)
    \/ \E length \in Lengths : CallSetDLC(length)

FnSpec == Init /\ [][FnNext]_vars

(***************************************************************************)
(* Properties.                                                             *)
(***************************************************************************)
\* xs with its first element removed, the rest unchanged and in order.
IsRest(rest, xs) ==
    /\ Len(rest) = Len(xs) - 1
    /\ \A i \in 1..Len(rest) : rest[i] = xs[i + 1]

\* The step in which request() takes an entry from the Response queue.
RequestTakes == pc = "req_poll" /\ pc' # pc /\ resQueue # <<>>

\* C1: for a command other than SYNCH and a head entry whose first byte is
\* not the ERROR PID, request() returns the entry's bytes minus the first
\* one, unchanged and in order, and removes exactly that entry from the
\* Response queue.
C1_RequestReturnsPayload ==
    [][ (RequestTakes /\ cmd # SYNCH /\ Head(resQueue)[1] # ERR_PID)
        => /\ pc' = "returned"
           /\ result'.op = "request"
           /\ result'.status = "ok"
           /\ IsRest(result'.value, Head(resQueue))
           /\ IsRest(resQueue', resQueue) ]_vars

\* request(DOWNLOAD_MAX) has returned the two payload bytes of a three-byte
\* positive response, with another entry still queued behind it.
C1_Witness ==
    /\ pc = "returned"
    /\ result.op = "request"
    /\ result.status = "ok"
    /\ cmd = DOWNLOAD_MAX
    /\ result.value = <<7, 8>>
    /\ resQueue # <<>>

C3_TimeoutLeavesQueueEmpty ==
    [][ (pc = "req_deadline" /\ pc' = "returned" /\ ~inTime)
        => /\ result'.status = "XcpTimeoutError"
           /\ resQueue' = <<>> ]_vars

\* C4: the entry a request() call consumes is never the answer to an
\* earlier request().
C4_RequestPairedWithOwnFrame ==
    (pc = "returned" /\ result.op = "request" /\ result.status # "XcpTimeoutError")
        => ~(0 < result.req /\ result.req < result.sent)

\* C5: the value block_receive(n) returns has length exactly n.
C5_BlockReceiveExactLength ==
    (pc = "returned" /\ result.op = "block_receive" /\ result.status = "ok")
        => Len(result.value) = lengthRequired

\* C6: a block_receive() call always ends, whatever the listener appends.
C6_BlockReceiveTerminates ==
    (pc = "br_loop") ~> (pc = "returned")

\* The step that is a block_request() call.
BlockRequestStep == pc = "idle" /\ pc' = "returned" /\ result'.op = "block_request"

C8_CloseIdempotent ==
    /\ closeRun >= 1 => (closeEvent /\ ~is_alive)
    /\ (pc = "returned" /\ result.op = "close") => (result.status = "ok" /\ closeRun >= 1)

\* close() has completed twice in a row after a connect() that did not start
\* the listener.
C8_Witness ==
    /\ closeRun = 2
    /\ pc = "returned"
    /\ result.op = "close"
    /\ connected
    /\ ~useDefaultListener
    /\ listener = "new"

\* C9: close() sets the stop signal, then waits for the listener, then
\* releases the link: while it waits and when it releases the link the stop
\* signal is set, the listener is not alive when the link is released, and
\* the listener is never at a read() once close() has released the link.
C9_CloseOrder ==
    /\ pc \in {"close_join", "close_conn"} => closeEvent
    /\ pc = "close_conn" => ~is_alive
    /\ released => (closeEvent /\ listener # "read")

\* close() has released the link after waiting for a listener that had been
\* started and has ended.
C9_Witness ==
    /\ pc = "returned"
    /\ result.op = "close"
    /\ released
    /\ link = "closed"
    /\ listener = "done"

\* C10: no inbound frame makes a failure escape the listen loop.
C10_ListenerNeverAborted == listener # "crashed"

\* xs with exactly one element added at its end.
IsOneMore(more, xs) ==
    /\ Len(more) = Len(xs) + 1
    /\ \A i \in 1..Len(xs) : more[i] = xs[i]

\* C11: every non-empty frame the listener accepts is appended as exactly one
\* record to exactly one queue, chosen by its first byte, the other three
\* queues staying as they are: first byte >= 0xFE to the Response queue,
\* 0xFD to the Event queue, 0xFC to the ServiceRequest queue, below 0xFC to
\* the Sample queue (the record carrying the frame).
C11_ClassifiesByFirstByte ==
    [][ \A data \in InboundFrames :
          (data # <<>> /\ ListenReadFrame(data))
          => LET pid == data[1]
             IN  /\ listener' = "check"
                 /\ (pid >= 254) =>
                        /\ IsOneMore(resQueue', resQueue)
                        /\ resQueue'[Len(resQueue')] = data
                        /\ UNCHANGED <<evQueue, servQueue, daqQueue>>
                 /\ (pid = 253) =>
                        /\ IsOneMore(evQueue', evQueue)
                        /\ evQueue'[Len(evQueue')] = data
                        /\ UNCHANGED <<resQueue, servQueue, daqQueue>>
                 /\ (pid = 252) =>
                        /\ IsOneMore(servQueue', servQueue)
                        /\ servQueue'[Len(servQueue')] = data
                        /\ UNCHANGED <<resQueue, evQueue, daqQueue>>
                 /\ (pid < 252) =>
                        /\ IsOneMore(daqQueue', daqQueue)
                        /\ daqQueue'[Len(daqQueue')][1] = data
                        /\ UNCHANGED <<resQueue, evQueue, servQueue>> ]_vars

\* The listener has filed an event and a sample, each in its own queue, the
\* Response and ServiceRequest queues staying empty.
C11_Witness ==
    /\ evQueue = << <<253>> >>
    /\ Len(daqQueue) = 1
    /\ daqQueue[1][1] = <<1>>
    /\ resQueue = <<>>
    /\ servQueue = <<>>

\* One step of a queue that keeps arrival order: nothing, one entry added at
\* the end, or the oldest entry removed.
FifoStep(q, qn) ==
    \/ qn = q
    \/ IsOneMore(qn, q)
    \/ q # <<>> /\ IsRest(qn, q)

\* C13: in each of the four queues the entry received first is popped first:
\* every step of the listener, request, block_request and block_receive
\* leaves a queue as it is, adds one entry behind all the others, or removes
\* the entry in front of all the others.
C13_QueuesKeepArrivalOrder ==
    [][ /\ FifoStep(resQueue, resQueue')
        /\ FifoStep(evQueue, evQueue')
        /\ FifoStep(servQueue, servQueue')
        /\ FifoStep(daqQueue, daqQueue') ]_vars

\* block_receive has popped the response received first, <<254, 7, 8>>, and
\* the ERROR response received after it is still queued.
C13_Witness ==
    /\ pc = "br_loop"
    /\ blockResponse = <<7, 8>>
    /\ resQueue = << <<255, 32>> >>

\* The queue of the category of a first byte, among the four given.
CategoryQueue(pid, res, ev, serv, daq) ==
    IF pid >= 254 THEN res ELSE IF pid = 253 THEN ev ELSE IF pid = 252 THEN serv ELSE daq

\* C12: without use_tcp, or with use_tcp false, processResponse fails with
\* FrameSizeError whenever the frame's length differs from the declared one,
\* and then no queue changes; with use_tcp true it never fails with
\* FrameSizeError and files a non-empty frame in the queue of its category
\* whatever the declared length.
C12_FrameSizeCheck ==
    [][ \A response \in DeliveredFrames, length \in DeclaredLengths,
           counter \in ReceivedCounters :
          Deliver(response, length, counter)
          => IF use_tcp # "True"
             THEN (Len(response) # length)
                  => /\ call'.ret = <<"FrameSizeError">>
                     /\ UNCHANGED <<resQueue, evQueue, servQueue, daqQueue>>
             ELSE /\ call'.ret # <<"FrameSizeError">>
                  /\ (response # <<>>)
                     => /\ call'.ret = <<"none">>
                        /\ IsOneMore(
                              CategoryQueue(response[1], resQueue', evQueue',
                                            servQueue', daqQueue'),
                              CategoryQueue(response[1], resQueue, evQueue,
                                            servQueue, daqQueue))
                        /\ Len(resQueue') + Len(evQueue') + Len(servQueue')
                             + Len(daqQueue')
                           = Len(resQueue) + Len(evQueue) + Len(servQueue)
                             + Len(daqQueue) + 1 ]_vars

\* On a length-prefixed transport without use_tcp the first frame handed to
\* processResponse, with counter 1, has failed with FrameSizeError and the
\* four queues are empty.
C12_Witness ==
    /\ HEADER = "LengthCounter"
    /\ use_tcp = "absent"
    /\ call.ret = <<"FrameSizeError">>
    /\ counterReceived = 1
    /\ resQueue = <<>> /\ evQueue = <<>> /\ servQueue = <<>> /\ daqQueue = <<>>

\* C14: on a length-prefixed transport the frame request() or block_request()
\* puts on the wire is a four-byte header, the command byte and the argument
\* bytes in order; the header's first field is the number of command and
\* argument bytes, its second field the send counter before the call, both
\* 16 bits wide and low byte first.  Command 0xEE with arguments CA FE BA BE
\* and send counter 0 gives 05 00 00 00 EE CA FE BA BE.
C14_HeaderFraming ==
    [][ \A c \in Commands, data \in FrameArgs :
          ( /\ request(c, data) \/ block_request(c, data)
            /\ sendCount' = sendCount + 1
            /\ HEADER = "LengthCounter" )
          => LET n == 1 + Len(data)
             IN  /\ Len(wire') = 4 + n
                 /\ wire'[1] + 256 * wire'[2] = n
                 /\ wire'[3] + 256 * wire'[4] = counterSend
                 /\ wire'[5] = c
                 /\ \A i \in 1..Len(data) : wire'[5 + i] = data[i]
                 /\ (c = 238 /\ data = <<202, 254, 186, 190>> /\ counterSend = 0)
                    => wire' = <<5, 0, 0, 0, 238, 202, 254, 186, 190>> ]_vars

\* request(0xEE, CA FE BA BE) is waiting for its response with
\* 05 00 00 00 EE CA FE BA BE on the wire.
C14_Witness ==
    /\ pc = "req_poll"
    /\ cmd = DOWNLOAD_MAX
    /\ wire = <<5, 0, 0, 0, 238, 202, 254, 186, 190>>

\* C15: the send counter is always within 0..65535 and equals the number of
\* frames handed to send() since construction modulo 65536, so it starts at
\* 0; every request() and every block_request() that sends advances it by
\* exactly one modulo 65536, 65535 wrapping to 0, also when send() raises;
\* no other step changes it, a timeout or an ERROR response included.
C15_SendCounter ==
    /\ [](/\ counterSend \in 0..65535
          /\ counterSend = (sentBefore + sendCount) % 65536)
    /\ [][ /\ \A c \in Commands, data \in FrameArgs :
               ( \/ request(c, data)
                 \/ requestSendRaises(c, data)
                 \/ block_request(c, data) /\ result'.status = "ok" )
               => /\ counterSend' = IF counterSend = 65535 THEN 0 ELSE counterSend + 1
                  /\ sendCount' = sendCount + 1
           /\ (pc # "idle" \/ sendCount' = sendCount) => counterSend' = counterSend ]_vars

\* After 65535 earlier frames, a request() whose wait timed out has wrapped
\* the counter to 0 and a second one, whose send() raised, has advanced it to 1.
C15_Witness ==
    /\ sentBefore = 65535
    /\ sendCount = 2
    /\ counterSend = 1
    /\ pc = "returned"
    /\ result.status = "TransmitError"

\* C20: on the CAN transport every request() and every block_request() that
\* sends hands exactly one payload to the driver: with MAX_DLC_REQUIRED set
\* and a frame shorter than 8 bytes, the frame followed by zero bytes up to
\* exactly 8 bytes; with a frame of 8 bytes or more, or the option not set,
\* the frame as it is.
C20_SendPadding ==
    [][ \A c \in Commands, data \in FrameArgs :
          ( /\ HEADER = "EmptyHeader"
            /\ \/ request(c, data)
               \/ block_request(c, data) /\ result'.status = "ok" )
          => LET frame == <<c>> \o data
             IN  /\ sendCount' = sendCount + 1
                 /\ IF max_dlc_required /\ Len(frame) < 8
                    THEN /\ Len(wire') = 8
                         /\ \A i \in 1..8 :
                              wire'[i] = IF i <= Len(frame) THEN frame[i] ELSE 0
                    ELSE wire' = frame ]_vars

\* With MAX_DLC_REQUIRED set, the five-byte frame EE CA FE BA BE went to the
\* driver followed by three zero bytes.
C20_Witness ==
    /\ HEADER = "EmptyHeader"
    /\ max_dlc_required
    /\ sendCount = 1
    /\ wire = <<238, 202, 254, 186, 190, 0, 0, 0>>

\* C16: Identifier(raw) with bit 31 clear succeeds exactly when raw <= 2047
\* and then has extended = false and id = raw; with bit 31 set it succeeds
\* exactly when raw without bit 31 is at most 536870911 (8191 * 65536 +
\* 65535) and then has extended = true and id = raw without bit 31; in every
\* other case it fails with IdentifierOutOfRangeError.
C16_IdentifierRange ==
    (call.fn = "Identifier")
    => LET raw == call.arg[1]
           marked == (raw.hi \div 32768) % 2 = 1
           i == IF marked THEN [hi |-> raw.hi - 32768, lo |-> raw.lo] ELSE raw
           r == call.ret
       IN  IF marked
           THEN IF i.hi <= 8191
                THEN r.exc = "none" /\ r.is_extended /\ r.id = i
                ELSE r.exc = "IdentifierOutOfRangeError"
           ELSE IF i.hi = 0 /\ i.lo <= 2047
                THEN r.exc = "none" /\ ~r.is_extended /\ r.id = raw
                ELSE r.exc = "IdentifierOutOfRangeError"

\* Identifier(0x9FFFFFFF) has made the extended identifier 0x1FFFFFFF.
C16_Witness ==
    /\ call.fn = "Identifier"
    /\ call.arg[1] = [hi |-> 40959, lo |-> 65535]
    /\ call.ret.exc = "none"
    /\ call.ret.is_extended
    /\ call.ret.id = [hi |-> 8191, lo |-> 65535]

RECURSIVE Pow2(_)
Pow2(k) == IF k = 0 THEN 1 ELSE 2 * Pow2(k - 1)

\* Bit k of n, bit 0 being the lowest.
Bit(n, k) ==
    IF k < 16 THEN (n.lo \div Pow2(k)) % 2 ELSE (n.hi \div Pow2(k - 16)) % 2

\* An identifier without its marker, bit 31.
Unmarked(id) == [hi |-> id.hi % 32768, lo |-> id.lo]

\* (id & mask) == (filter & mask)
Accepts(filter, mask, id) ==
    \A k \in 0..31 : Bit(mask, k) = 1 => Bit(id, k) = Bit(filter, k)

\* C17: the filter and mask calculateFilter returns for a non-empty list of
\* identifiers accept every identifier of the list, its marker bit stripped:
\* (id & mask) == (filter & mask).
C17_FilterAcceptsIds ==
    (call.fn = "calculateFilter")
    => \A i \in 1..Len(call.arg) :
          Accepts(call.ret.cfilter, call.ret.cmask, Unmarked(call.arg[i]))

\* calculateFilter([0x101, 0x102]) has returned filter 0x100 and mask 0x7FC.
C17_Witness ==
    /\ call.fn = "calculateFilter"
    /\ call.arg = << [hi |-> 0, lo |-> 257], [hi |-> 0, lo |-> 258] >>
    /\ call.ret.cfilter = [hi |-> 0, lo |-> 256]
    /\ call.ret.cmask = [hi |-> 0, lo |-> 2044]

\* The identifiers of a list all carry the same bit k.
Agree(ids, k) ==
    \A i, j \in 1..Len(ids) : Bit(Unmarked(ids[i]), k) = Bit(Unmarked(ids[j]), k)

\* The width of the applicable range: 29 bits (0x1FFFFFFF) when an identifier
\* of the list is extended, 11 bits (0x7FF) when all are standard.
Span(ids) ==
    IF \E i \in 1..Len(ids) : (ids[i].hi \div 32768) % 2 = 1 THEN 29 ELSE 11

\* The mask without its bit k still accepts the identifier.
AcceptsWithout(filter, mask, k, id) ==
    \A j \in 0..31 : (j # k /\ Bit(mask, j) = 1) => Bit(id, j) = Bit(filter, j)

\* C18 (as amended): calculateFilter returns filter = AND of all ids and
\* mask = ((OR of all ids) XOR filter) XOR range, the range being 0x7FF when
\* all ids are standard and 0x1FFFFFFF when any is extended: the mask has a
\* bit set exactly at the positions within the range where all ids agree, so
\* it is the largest mask within the range that accepts every id, and it has
\* no bit set outside the range.
C18_FilterAndMask ==
    (call.fn = "calculateFilter")
    => LET ids == call.arg
           filter == call.ret.cfilter
           mask == call.ret.cmask
       IN  /\ \A k \in 0..31 :
                 Bit(filter, k) = 1
                 <=> \A i \in 1..Len(ids) : Bit(Unmarked(ids[i]), k) = 1
           /\ \A k \in 0..31 :
                 Bit(mask, k) = 1 <=> (k < Span(ids) /\ Agree(ids, k))

\* calculateFilter([0x80000101, 0x102]) has returned filter 0x100 and mask
\* 0x1FFFFFFC.
C18_Witness ==
    /\ call.fn = "calculateFilter"
    /\ call.arg = << [hi |-> 32768, lo |-> 257], [hi |-> 0, lo |-> 258] >>
    /\ call.ret.cfilter = [hi |-> 0, lo |-> 256]
    /\ call.ret.cmask = [hi |-> 8191, lo |-> 65532]

\* C18 (as stated): filter is the AND of all ids, the mask accepts every id,
\* has no bit set outside the applicable range, and is minimal among the
\* masks that accept every id: no bit can be taken from it without an id
\* being refused.
C18_MinimalMask ==
    (call.fn = "calculateFilter")
    => LET ids == call.arg
           filter == call.ret.cfilter
           mask == call.ret.cmask
       IN  /\ \A k \in 0..31 :
                 Bit(filter, k) = 1
                 <=> \A i \in 1..Len(ids) : Bit(Unmarked(ids[i]), k) = 1
           /\ \A i \in 1..Len(ids) : Accepts(filter, mask, Unmarked(ids[i]))
           /\ \A k \in 0..31 : Bit(mask, k) = 1 => k < Span(ids)
           /\ \A k \in 0..31 :
                 Bit(mask, k) = 1
                 => \E i \in 1..Len(ids) :
                       ~AcceptsWithout(filter, mask, k, Unmarked(ids[i]))

\* C19: setDLC(length) answers every integer: a length within 0..8 comes back
\* unchanged; a length within 9..64 gives the smallest of 12, 16, 20, 24, 32,
\* 48, 64 that is not below it (9 gives 12, 64 gives 64); a length above 64
\* or below 0 fails with ValueError; every value returned is at least the
\* length and is a CAN or CAN-FD length.
C19_SetDlc ==
    (call.fn = "setDLC")
    => LET length == call.arg[1]
           r == call.ret
           fd == {12, 16, 20, 24, 32, 48, 64}
       IN  IF length < 0 \/ length > 64
           THEN r.kind = "ValueError"
           ELSE /\ r.kind = "value"
                /\ r.value >= length
                /\ r.value \in (0..8) \cup fd
                /\ (length <= 8) => r.value = length
                /\ (length > 8) =>
                      /\ r.value \in fd
                      /\ \A d \in fd : d >= length => r.value <= d
                /\ (length = 9) => r.value = 12
                /\ (length = 64) => r.value = 64

\* setDLC(12) has returned 12, the smallest CAN-FD length not below it.
C19_Witness ==
    /\ call.fn = "setDLC"
    /\ call.arg = <<12>>
    /\ call.ret.kind = "value"
    /\ call.ret.value = 12

\* C21: connect() starts the listener, when the default listener is
\* configured, and only then opens the driver link; the listener hands every
\* frame it reads to processResponse with the payload's own length and
\* counter 0, so no frame it reads raises FrameSizeError, and the received
\* counter is 0 throughout.
C21_BusListenerForwards ==
    /\ [](counterReceived = 0)
    /\ [](pc = "conn_link" => (useDefaultListener <=> listener # "new"))
    /\ [][ (pc = "idle" /\ pc' = "conn_link")
            => /\ link' = link
               /\ IF useDefaultListener
                  THEN listener = "new" /\ listener' = "check"
                  ELSE listener' = listener ]_vars
    /\ [][ (pc = "conn_link" /\ pc' # pc)
            => /\ link' = "open"
               /\ listener' = listener
               /\ result'.op = "connect" /\ result'.status = "ok" ]_vars
    /\ [][ \A data \in InboundFrames :
              ListenReadFrame(data)
              => /\ Forwarded(data) = [response |-> data, length |-> Len(data),
                                       counter |-> 0]
                 /\ Raised(data) # "FrameSizeError"
                 /\ counterReceived' = 0 ]_vars

\* After a connect() that started the listener and opened the link, the
\* listener has filed a two-byte response and a sample whose record carries
\* counter 0 and declared length 1.
C21_Witness ==
    /\ connected
    /\ useDefaultListener
    /\ link = "open"
    /\ listener = "check"
    /\ resQueue = << <<ERR_PID, 32>> >>
    /\ daqQueue = << << <<1>>, 0, 1, 0 >> >>
    /\ counterReceived = 0

\* The step that ends a call with XcpTimeoutError or XcpResponseError.
EndsInError ==
    /\ pc # "returned"
    /\ pc' = "returned"
    /\ result'.status \in {"XcpTimeoutError", "XcpResponseError"}

\* C22: nothing is retried.  The step that begins request() hands exactly one
\* frame to send() and no later step of the call hands another; a
\* block_request() call hands over one frame or none; request() takes at most
\* one entry from the Response queue, in the step that ends it; the step in
\* which a call fails with XcpTimeoutError or XcpResponseError sends nothing
\* (and, on a timeout, pops nothing), and once a call has ended nothing is
\* sent or popped on its behalf.
C22_NeverRetries ==
    [][ /\ (pc = "idle" /\ pc' = "req_poll") => sendCount' = sendCount + 1
        /\ (pc \in {"req_poll", "req_deadline", "returned"}) =>
               /\ sendCount' = sendCount
               /\ counterSend' = counterSend
        /\ BlockRequestStep => sendCount' \in {sendCount, sendCount + 1}
        /\ (sendCount' # sendCount) =>
               /\ pc = "idle"
               /\ sendCount' = sendCount + 1
        /\ (pc = "req_poll" /\ Len(resQueue') < Len(resQueue)) =>
               /\ IsRest(resQueue', resQueue)
               /\ pc' = "returned"
        /\ (pc \in {"req_deadline", "returned"}) => Len(resQueue') >= Len(resQueue)
        /\ EndsInError =>
               /\ sendCount' = sendCount
               /\ wire' = wire
               /\ (result'.status = "XcpTimeoutError") => resQueue' = resQueue
               /\ (result'.status = "XcpResponseError") => IsRest(resQueue', resQueue)
      ]_vars

\* Two request() calls have each handed one frame to send(); the second has
\* just failed with XcpTimeoutError, two frames having been sent in all.
C22_Witness ==
    /\ pc = "returned"
    /\ result.op = "request"
    /\ result.status = "XcpTimeoutError"
    /\ reqCount = 2
    /\ sendCount = 2
    /\ counterSend = 2

\* xs is the front part of ys: ys keeps every entry of xs, in place.
IsPrefix(xs, ys) ==
    /\ Len(xs) <= Len(ys)
    /\ \A i \in 1..Len(xs) : ys[i] = xs[i]

\* C23: request() does not drain the Response queue.  The step that begins
\* it leaves the queue as it is, and every entry queued then was appended
\* before the call's own frame was sent; an entry appended while a call is
\* timing out, or after it has ended, stays queued; and a request() that
\* finds at the head an entry that does not answer its own frame takes that
\* entry at its first look, returning its payload or raising
\* XcpResponseError from it, and never waits.
C23_RequestTakesStaleEntry ==
    [][ /\ (pc = "idle" /\ pc' = "req_poll") =>
               /\ resQueue' = resQueue
               /\ \A i \in 1..Len(resReq') : resReq'[i] # reqCount'
        /\ (pc \in {"req_deadline", "returned"}) => IsPrefix(resQueue, resQueue')
        /\ (pc = "req_poll" /\ resQueue # <<>> /\ Head(resReq) # reqCount) =>
               /\ pc' \in {"req_poll", "returned"}
               /\ (pc' = "req_poll") => IsPrefix(resQueue, resQueue')
               /\ (pc' = "returned") =>
                      /\ IsRest(resQueue', resQueue)
                      /\ result'.op = "request"
                      /\ result'.sent = reqCount
                      /\ result'.req = Head(resReq)
                      /\ result'.status # "XcpTimeoutError"
                      /\ IF Head(resQueue)[1] = ERR_PID /\ cmd # SYNCH
                         THEN result'.status # "ok"
                         ELSE /\ result'.status = "ok"
                              /\ IsRest(result'.value, Head(resQueue))
      ]_vars

\* The first request() has failed with XcpTimeoutError and its response was
\* appended too late; the second request() has returned that entry at its
\* first look, before any time had passed.
C23_Witness ==
    /\ pc = "returned"
    /\ result.op = "request"
    /\ result.status = "ok"
    /\ result.sent = 2
    /\ result.req = 1
    /\ elapsed = 0

\* A step that appends a record to one of the four queues.
Appends ==
    \/ Len(resQueue') > Len(resQueue)
    \/ Len(evQueue') > Len(evQueue)
    \/ Len(servQueue') > Len(servQueue)
    \/ Len(daqQueue') > Len(daqQueue)

\* C24: the stop signal, once set, stays set; every iteration of the listen
\* loop tests it once, before its read(), and ends the listener when it is
\* set, so a listener started after the signal was set ends without a
\* read(); with the signal set the listener gets at most one more read()
\* back and files at most one more frame, and then it ends, as long as it
\* is scheduled and read() returns; once close() has returned no queue gets
\* a further record.
C24_StopSignal ==
    /\ [][closeEvent => closeEvent']_vars
    /\ [](lateReads <= 1)
    /\ [][ (listener = "new" /\ listener' # listener) => listener' = "check" ]_vars
    /\ [][ (listener = "check" /\ listener' # listener)
            => /\ listener' = IF closeEvent THEN "done" ELSE "read"
               /\ lateReads' = lateReads
               /\ ~Appends ]_vars
    /\ [][ (listener = "read" /\ listener' # listener)
            => /\ listener' \in {"check", "crashed"}
               /\ closeEvent => (lateReads = 0 /\ lateReads' = 1) ]_vars
    /\ [][ (listener \in {"done", "crashed"}) => listener' = listener ]_vars
    /\ [][ Appends => (listener = "read" /\ listener' # listener /\ ~released) ]_vars
    /\ [](released => (closeEvent /\ listener # "read"))
    /\ closeEvent ~> ~is_alive

\* close() has returned after a listener that got one more read() back with
\* the stop signal set, found the signal at its next test and ended.
C24_Witness ==
    /\ pc = "returned"
    /\ result.op = "close"
    /\ released
    /\ closeEvent
    /\ lateReads = 1
    /\ listener = "done"
====
